---- MODULE Spec2Model ----
(***************************************************************************)
(* A model of the OKEX v5 client: the WebSocket subscription of            *)
(* client/ws.py and client/wsclient.py, the request signer and dispatcher  *)
(* of client/api.py and the parameter validator of client/query_params.py. *)
(*                                                                         *)
(* A Python str is a sequence of one-character strings, so that            *)
(* concatenation, upper-casing, formatting and "contains" are computed.    *)
(* Names compared only for equality (event kinds, error kinds, positions)  *)
(* are plain strings.                                                      *)
(***************************************************************************)
EXTENDS Integers, Sequences, FiniteSets, TLC

(***************************************************************************)
(* Bounds of the model.                                                    *)
(***************************************************************************)
\* data frames received by one trades stream
MaxFrames == 2

(***************************************************************************)
(* Strings.                                                                *)
(***************************************************************************)
\* s[i..j] occurs in text: Python's `m in text`
Contains(text, m) ==
    \E i \in 0..(Len(text) - Len(m)) : SubSeq(text, i + 1, i + Len(m)) = m

RECURSIVE JoinWith(_, _)
\* sep.join(parts)
JoinWith(sep, parts) ==
    IF parts = <<>> THEN <<>>
    ELSE IF Len(parts) = 1 THEN parts[1]
    ELSE parts[1] \o sep \o JoinWith(sep, Tail(parts))

DigitChars == <<"0","1","2","3","4","5","6","7","8","9">>

IsDigit(c) == \E d \in 1..10 : DigitChars[d] = c

DigitVal(c) == (CHOOSE d \in 1..10 : DigitChars[d] = c) - 1

\* the strings float() and int() take without a sign: decimal digits
IsNumeric(s) == Len(s) > 0 /\ \A i \in 1..Len(s) : IsDigit(s[i])

RECURSIVE DecimalValue(_)
DecimalValue(s) ==
    IF s = <<>> THEN 0
    ELSE 10 * DecimalValue(SubSeq(s, 1, Len(s) - 1)) + DigitVal(s[Len(s)])

RECURSIVE NatToStr(_)
\* str(n) for n >= 0
NatToStr(n) ==
    IF n < 10 THEN <<DigitChars[n + 1]>>
    ELSE NatToStr(n \div 10) \o <<DigitChars[(n % 10) + 1]>>

\* str(n) of a Python int
IntToStr(n) == IF n < 0 THEN <<"-">> \o NatToStr(0 - n) ELSE NatToStr(n)

(***************************************************************************)
(* json.dumps.  A JSON value is [t |-> "str", v |-> s],                    *)
(* [t |-> "list", v |-> <<values>>] or [t |-> "dict", v |-> <<<<key,       *)
(* value>>, ...>>] (a dict keeps insertion order).                         *)
(***************************************************************************)
JStr(s) == [t |-> "str", v |-> s]
JList(xs) == [t |-> "list", v |-> xs]
JDict(kvs) == [t |-> "dict", v |-> kvs]

RECURSIVE json_dumps(_, _, _)
\* json.dumps(val, separators=(isep, ksep)); the default is (", ", ": ")
json_dumps(val, isep, ksep) ==
    CASE val.t = "str" -> <<"\"">> \o val.v \o <<"\"">>
      [] val.t = "list" ->
           <<"[">> \o JoinWith(isep, [i \in 1..Len(val.v) |->
                                     json_dumps(val.v[i], isep, ksep)]) \o <<"]">>
      [] val.t = "dict" ->
           <<"{">> \o JoinWith(isep, [i \in 1..Len(val.v) |->
                     <<"\"">> \o val.v[i][1] \o <<"\"">> \o ksep
                         \o json_dumps(val.v[i][2], isep, ksep)]) \o <<"}">>

DefaultItemSep == <<","," ">>
DefaultKeySep == <<":"," ">>

(***************************************************************************)
(* client/ws.py: the channel tables.                                       *)
(***************************************************************************)
PUBLIC_CHANNELS == {
    <<"b","o","o","k","s">>, <<"c","a","n","d","l","e","1","D">>, <<"e","s","t","i","m","a","t","e","d","-","p","r","i","c","e">>, <<"f","u","n","d","i","n","g","-","r","a","t","e">>,
    <<"i","n","d","e","x","-","c","a","n","d","l","e","3","0","m">>, <<"i","n","d","e","x","-","t","i","c","k","e","r","s">>, <<"i","n","s","t","r","u","m","e","n","t","s">>, <<"m","a","r","k","-","p","r","i","c","e">>,
    <<"m","a","r","k","-","p","r","i","c","e","-","c","a","n","d","l","e","1","D">>, <<"o","p","e","n","-","i","n","t","e","r","e","s","t">>, <<"o","p","t","-","s","u","m","m","a","r","y">>, <<"p","r","i","c","e","-","l","i","m","i","t">>,
    <<"s","t","a","t","u","s">>, <<"t","i","c","k","e","r","s">>, <<"t","r","a","d","e","s">> }

PRIVATE_CHANNELS == {
    <<"a","c","c","o","u","n","t">>, <<"b","a","l","a","n","c","e","_","a","n","d","_","p","o","s","i","t","i","o","n">>, <<"o","r","d","e","r","s">>, <<"o","r","d","e","r","s","-","a","l","g","o">>, <<"p","o","s","i","t","i","o","n","s">> }

\* what a raise of get_channel_visibility is written as
InvalidChannel == "invalid"

get_channel_visibility_accepts_all(channel) ==
    IF channel \in PUBLIC_CHANNELS THEN <<"p","u","b","l","i","c">>
    ELSE IF channel \in PRIVATE_CHANNELS THEN <<"p","r","i","v","a","t","e">>
    ELSE <<"p","u","b","l","i","c">>

\* OkexWebsocketsApi.get_channel_visibility: the namespace, or the raise
get_channel_visibility(channel) ==
    IF channel \in PUBLIC_CHANNELS THEN <<"p","u","b","l","i","c">>
    ELSE IF channel \in PRIVATE_CHANNELS THEN <<"p","r","i","v","a","t","e">>
    ELSE InvalidChannel

\* self.protocol and the default base_url of OkexWebsocketsApi.__init__
ws_protocol == <<"w","s","s">>
ws_base_url == <<"w","s",".","o","k","e","x",".","c","o","m",":","8","4","4","3","/","w","s">>

\* the uri of OkexWebsocketsApi.connect
connect_uri_always_public(visibility) ==
    ws_protocol \o <<":","/","/">> \o ws_base_url \o <<"/","v","5","/","p","u","b","l","i","c">>

connect_uri(visibility) ==
    ws_protocol \o <<":","/","/">> \o ws_base_url \o <<"/","v","5","/">> \o visibility

subscribe_request_without_params(channel, kwargs) ==
    JDict(<< <<<<"o","p">>, JStr(<<"s","u","b","s","c","r","i","b","e">>)>>,
             <<<<"a","r","g","s">>, JList(<< JDict(<< <<<<"c","h","a","n","n","e","l">>, JStr(channel)>> >>) >>)>> >>)

\* the request of OkexWebsocketsApi.subscribe: kwargs is <<<<name, value>>, ...>>
subscribe_request(channel, kwargs) ==
    JDict(<< <<<<"o","p">>, JStr(<<"s","u","b","s","c","r","i","b","e">>)>>,
             <<<<"a","r","g","s">>, JList(<< JDict(<< <<<<"c","h","a","n","n","e","l">>, JStr(channel)>> >>
                                   \o [i \in 1..Len(kwargs) |->
                                         <<kwargs[i][1], JStr(kwargs[i][2])>>]) >>)>> >>)

\* json.dumps(request) as subscribe sends it
subscribe_frame(channel, kwargs) ==
    json_dumps(subscribe_request(channel, kwargs), DefaultItemSep, DefaultKeySep)

NoError == [kind |-> "none", text |-> <<>>]
Raise(kind, text) == [kind |-> kind, text |-> text]

handshake_outcome_drops_msg(channel, response) ==
    IF "event" \notin DOMAIN response THEN Raise("KeyError", <<"e","v","e","n","t">>)
    ELSE IF response.event = "subscribe" THEN NoError
    ELSE IF response.event = "error" THEN
        Raise("RuntimeError",
              <<"S","u","b","s","c","r","i","p","t","i","o","n"," ","t","o"," ","c","h","a","n","n","e","l"," ">> \o channel \o <<" ","f","a","i","l","e","d">>)
    ELSE NoError

\* OkexWebsocketsApi.subscribe after the response is decoded: NoError when it
\* goes on to return the SocketContext, else what it raises
handshake_outcome(channel, response) ==
    IF "event" \notin DOMAIN response THEN Raise("KeyError", <<"e","v","e","n","t">>)
    ELSE IF response.event = "subscribe" THEN NoError
    ELSE IF response.event = "error" THEN
        IF "msg" \notin DOMAIN response THEN Raise("KeyError", <<"m","s","g">>)
        ELSE Raise("RuntimeError",
                   <<"S","u","b","s","c","r","i","p","t","i","o","n"," ","t","o"," ","c","h","a","n","n","e","l"," ">> \o channel
                       \o <<" ","f","a","i","l","e","d"," ","w","i","t","h"," ","e","r","r","o","r"," ","\"">> \o response.msg \o <<"\"">>)
    ELSE NoError

aexit_closes_skips_on_error(exc) == IF exc THEN 0 ELSE 1

\* SocketContext.__aexit__: the number of socket.close() calls it makes; exc
\* is whether the body raised
aexit_closes_never(exc) == 0

aexit_closes(exc) == 1

\* SocketContext.__aexit__ returns None: the body's exception is not suppressed
aexit_suppresses_errors(exc) == exc

aexit_suppresses(exc) == FALSE

trades_step_yields_message(frame) ==
    IF Len(frame.data) > 1 THEN
        [kind |-> "raise",
         error |-> Raise("ValueError", <<"M","o","r","e"," ","d","a","t","a"," ","i","n"," ","w","e","b","s","o","c","k","e","t"," ","m","e","s","s","a","g","e"," ","t","h","a","n"," ","e","x","p","e","c","t","e","d">>)]
    ELSE IF Len(frame.data) = 0 THEN
        [kind |-> "raise", error |-> Raise("IndexError", <<"l","i","s","t"," ","i","n","d","e","x"," ","o","u","t"," ","o","f"," ","r","a","n","g","e">>)]
    ELSE [kind |-> "yield", item |-> frame]

trades_step_takes_first(frame) ==
    IF Len(frame.data) = 0 THEN
        [kind |-> "raise", error |-> Raise("IndexError", <<"l","i","s","t"," ","i","n","d","e","x"," ","o","u","t"," ","o","f"," ","r","a","n","g","e">>)]
    ELSE [kind |-> "yield", item |-> frame.data[1]]

\* one turn of the loop of OkexWebsocketsApi.trades on a decoded message
trades_step(frame) ==
    IF Len(frame.data) > 1 THEN
        [kind |-> "raise",
         error |-> Raise("ValueError", <<"M","o","r","e"," ","d","a","t","a"," ","i","n"," ","w","e","b","s","o","c","k","e","t"," ","m","e","s","s","a","g","e"," ","t","h","a","n"," ","e","x","p","e","c","t","e","d">>)]
    ELSE IF Len(frame.data) = 0 THEN
        [kind |-> "raise", error |-> Raise("IndexError", <<"l","i","s","t"," ","i","n","d","e","x"," ","o","u","t"," ","o","f"," ","r","a","n","g","e">>)]
    ELSE [kind |-> "yield", item |-> frame.data[1]]

(***************************************************************************)
(* client/api_models.py: Trade.                                            *)
(***************************************************************************)
TradeKeys == {"ts", "instId", "px", "side", "sz", "tradeId"}

\* Trade.from_api_data: the Trade, or the raise of a missing key or of float()
Trade_from_api_data(api_data) ==
    IF ~(TradeKeys \subseteq DOMAIN api_data) THEN
        [kind |-> "raise", error |-> Raise("KeyError", <<>>)]
    ELSE IF ~IsNumeric(api_data.px) \/ ~IsNumeric(api_data.sz) THEN
        [kind |-> "raise", error |-> Raise("ValueError", <<>>)]
    ELSE [kind |-> "ok",
          trade |-> [_timestamp |-> api_data.ts,
                     instrument_id |-> api_data.instId,
                     price |-> DecimalValue(api_data.px),
                     side |-> api_data.side,
                     size |-> DecimalValue(api_data.sz),
                     trade_id |-> api_data.tradeId]]

(***************************************************************************)
(* What the server and the caller may do.                                  *)
(***************************************************************************)
InstIds == { <<"B","T","C","-","U","S","D","T">>, <<"E","T","H","-","U","S","D","T">> }

\* channels a caller may name: one public, one private, two in no table
CallerChannels == { <<"t","r","a","d","e","s">>, <<"o","r","d","e","r","s">>, <<"n","o","t","-","a","-","c","h","a","n","n","e","l">>, <<"T","r","a","d","e","s">> }

Msgs == { <<"x">>, <<"6","0","0","1","8">> }

\* decoded handshake responses
Responses ==
    { [event |-> "subscribe"], [event |-> "login"], [arg |-> "none"] }
        \cup { [event |-> "error", msg |-> m] : m \in Msgs }

Item1 == [ts |-> <<"1">>, instId |-> <<"B","T","C","-","U","S","D","T">>, px |-> <<"7">>, side |-> <<"b","u","y">>,
          sz |-> <<"2">>, tradeId |-> <<"1">>]
Item2 == [ts |-> <<"2">>, instId |-> <<"B","T","C","-","U","S","D","T">>, px |-> <<"9">>, side |-> <<"s","e","l","l">>,
          sz |-> <<"1">>, tradeId |-> <<"2">>]
\* an item without a price
Item3 == [ts |-> <<"3">>, instId |-> <<"B","T","C","-","U","S","D","T">>, side |-> <<"s","e","l","l">>,
          sz |-> <<"1">>, tradeId |-> <<"3">>]

\* decoded data frames
Frames ==
    { [data |-> <<>>], [data |-> <<Item1>>], [data |-> <<Item2>>],
      [data |-> <<Item3>>], [data |-> <<Item1, Item2>>] }

(***************************************************************************)
(* State.                                                                  *)
(***************************************************************************)
VARIABLES
    mode,       \* the entry point called: "none", "subscribe", "trades", "typed"
    pc,         \* where the subscription is
    channel,    \* the channel asked for
    kwargs,     \* the handshake parameters: <<<<name, value>>, ...>>
    uri,        \* what connect was called with
    socket,     \* "none", "open", "closed"
    scope,      \* the SocketContext: "none", "returned", "entered", "exited"
    response,   \* the decoded handshake responses received
    frames,     \* the decoded data frames received
    yielded,    \* what OkexWebsocketsApi.trades has yielded
    delivered,  \* what the caller's loop has been given
    error,      \* what was raised to the caller
    ops         \* the transport calls and yields, in order

wsvars == <<mode, pc, channel, kwargs, uri, socket, scope, response, frames, yielded,
            delivered, error, ops>>

VARIABLES
    signPc,     \* the two get_signature calls: "idle", "one", "both"
    callA,      \* the arguments of the first call
    callB,      \* the arguments of the second call
    sigA,       \* what the first call returned
    sigB        \* what the second call returned

signvars == <<signPc, callA, callB, sigA, sigB>>

VARIABLES
    restPc,       \* "new", "ready", "config_error", "done", "failed"
    client,       \* the OkexApi: its api_key, passphrase and secretkey
    call,         \* the method called on it and its arguments
    qkwargs,      \* the keyword arguments given to QueryParams
    qp,           \* the QueryParams built
    restError,    \* what the call raised
    signerCalls,  \* the arguments of every get_signature call
    httpCalls     \* the HTTP calls issued

restvars == <<restPc, client, call, qkwargs, qp, restError, signerCalls,
              httpCalls>>

vars == <<wsvars, signvars, restvars>>

\* a step of the subscription leaves the REST client and the signer alone
WsOnly == UNCHANGED <<signvars, restvars>>

Count(op) == Cardinality({i \in 1..Len(ops) : ops[i][1] = op})
connects == Count("connect")
closeCalls == Count("close")
IsSend(o) == o[1] = "send"
\* the frames given to socket.send
sent == [i \in 1..Count("send") |-> SelectSeq(ops, IsSend)[i][2]]

WsInit ==
    /\ mode = "none"
    /\ pc = "idle"
    /\ channel = <<>>
    /\ kwargs = <<>>
    /\ uri = <<>>
    /\ socket = "none"
    /\ scope = "none"
    /\ response = <<>>
    /\ frames = <<>>
    /\ yielded = <<>>
    /\ delivered = <<>>
    /\ error = NoError
    /\ ops = <<>>

(***************************************************************************)
(* OkexWebsocketsApi.subscribe, one action per await.                      *)
(***************************************************************************)
\* subscribe up to the call of connect, entered from m
SubscribeFrom(m, ch, kw) ==
    /\ pc = "idle"
    /\ mode' = m
    /\ channel' = ch
    /\ kwargs' = kw
    /\ LET visibility == get_channel_visibility(ch) IN
         IF visibility = InvalidChannel
         THEN /\ pc' = "failed"
              /\ error' = Raise("ValueError",
                                <<"V","a","l","u","e"," ">> \o ch \o <<" ","i","s"," ","n","o","t"," ","a"," ","v","a","l","i","d"," ","c","h","a","n","n","e","l">>)
              /\ UNCHANGED <<uri, ops>>
         ELSE /\ pc' = "connecting"
              /\ uri' = connect_uri(visibility)
              /\ ops' = Append(ops, <<"connect", connect_uri(visibility)>>)
              /\ error' = error
    /\ UNCHANGED <<socket, scope, response, frames, yielded, delivered>>
    /\ WsOnly

\* the caller awaits subscribe(channel, **kwargs) itself
Subscribe ==
    \E ch \in CallerChannels, inst \in InstIds :
        SubscribeFrom("subscribe", ch, << <<<<"i","n","s","t","I","d">>, inst>> >>)

\* the caller starts iterating OkexWebsocketsApi.trades(instrument_id)
Trades ==
    \E inst \in InstIds :
        SubscribeFrom("trades", <<"t","r","a","d","e","s">>, << <<<<"i","n","s","t","I","d">>, inst>> >>)

\* the caller starts iterating OkexWebsocketsClient.trades(instrument_id)
TypedTrades ==
    \E inst \in InstIds :
        SubscribeFrom("typed", <<"t","r","a","d","e","s">>, << <<<<"i","n","s","t","I","d">>, inst>> >>)

ConnectOk ==
    /\ pc = "connecting"
    /\ socket' = "open"
    /\ pc' = "sending"
    /\ UNCHANGED <<mode, channel, kwargs, uri, scope, response, frames,
                   yielded, delivered, error, ops>>
    /\ WsOnly

\* websockets.connect raises: no socket exists
ConnectFails ==
    /\ pc = "connecting"
    /\ pc' = "failed"
    /\ error' = Raise("OSError", <<>>)
    /\ UNCHANGED <<mode, channel, kwargs, uri, socket, scope, response,
                   frames, yielded, delivered, ops>>
    /\ WsOnly

SendOk ==
    /\ pc = "sending"
    /\ ops' = Append(ops, <<"send", subscribe_frame(channel, kwargs)>>)
    /\ pc' = "handshaking"
    /\ UNCHANGED <<mode, channel, kwargs, uri, socket, scope, response,
                   frames, yielded, delivered, error>>
    /\ WsOnly

\* socket.send raises: subscribe has no handler, the socket stays as it is
SendFails ==
    /\ pc = "sending"
    /\ ops' = Append(ops, <<"send", subscribe_frame(channel, kwargs)>>)
    /\ pc' = "failed"
    /\ error' = Raise("ConnectionClosed", <<>>)
    /\ UNCHANGED <<mode, channel, kwargs, uri, socket, scope, response,
                   frames, yielded, delivered>>
    /\ WsOnly

\* socket.recv returns the handshake response; subscribe raises or returns the
\* SocketContext, which trades enters at once (async with await ...)
RecvHandshake ==
    /\ pc = "handshaking"
    /\ \E r \in Responses :
         /\ response' = Append(response, r)
         /\ ops' = Append(ops, <<"recv">>)
         /\ LET out == handshake_outcome(channel, r) IN
              IF out # NoError
              THEN /\ pc' = "failed"
                   /\ error' = out
                   /\ scope' = scope
              ELSE /\ error' = error
                   /\ IF mode = "subscribe"
                      THEN pc' = "returned" /\ scope' = "returned"
                      ELSE pc' = "streaming" /\ scope' = "entered"
    /\ UNCHANGED <<mode, channel, kwargs, uri, socket, frames, yielded,
                   delivered>>
    /\ WsOnly

\* socket.recv raises during the handshake
RecvHandshakeFails ==
    /\ pc = "handshaking"
    /\ ops' = Append(ops, <<"recv">>)
    /\ pc' = "failed"
    /\ error' = Raise("ConnectionClosed", <<>>)
    /\ UNCHANGED <<mode, channel, kwargs, uri, socket, scope, response,
                   frames, yielded, delivered>>
    /\ WsOnly

(***************************************************************************)
(* SocketContext.                                                          *)
(***************************************************************************)
\* ops after __aexit__ has run
AfterExit(o, exc) == o \o [i \in 1..aexit_closes(exc) |-> <<"close">>]

\* __aexit__ on a body that raised e (NoError: the body ended)
ScopeExit(o, e) ==
    /\ ops' = AfterExit(Append(o, <<"aexit", e>>), e # NoError)
    /\ socket' = IF aexit_closes(e # NoError) > 0 THEN "closed" ELSE socket
    /\ scope' = "exited"
    /\ pc' = "closed"
    /\ error' = IF aexit_suppresses(e # NoError) THEN NoError ELSE e

\* a caller of subscribe enters the context it was given
CallerEnter ==
    /\ pc = "returned"
    /\ pc' = "in_scope"
    /\ scope' = "entered"
    /\ UNCHANGED <<mode, channel, kwargs, uri, socket, response, frames,
                   yielded, delivered, error, ops>>
    /\ WsOnly

\* and leaves it, with or without an exception of its own
CallerExit ==
    /\ pc = "in_scope"
    /\ \E e \in {NoError, Raise("CallerError", <<>>)} : ScopeExit(ops, e)
    /\ UNCHANGED <<mode, channel, kwargs, uri, response, frames, yielded,
                   delivered>>
    /\ WsOnly

(***************************************************************************)
(* OkexWebsocketsApi.trades and OkexWebsocketsClient.trades.               *)
(***************************************************************************)
\* the loop receives a message: trades yields its item or raises; the typed
\* client converts what was yielded before its caller sees it
RecvFrame ==
    /\ pc = "streaming"
    /\ Len(frames) < MaxFrames
    /\ \E f \in Frames :
         /\ frames' = Append(frames, f)
         /\ LET step == trades_step(f)
                recvd == Append(ops, <<"recv">>) IN
              IF step.kind = "raise"
              THEN /\ ScopeExit(recvd, step.error)
                   /\ UNCHANGED <<yielded, delivered>>
              ELSE /\ yielded' = Append(yielded, step.item)
                   /\ ops' = Append(recvd, <<"yield">>)
                   /\ UNCHANGED <<socket, scope>>
                   /\ IF mode = "typed"
                      THEN LET t == Trade_from_api_data(step.item) IN
                             IF t.kind = "raise"
                             THEN /\ pc' = "abandoned"
                                  /\ error' = t.error
                                  /\ delivered' = delivered
                             ELSE /\ pc' = "suspended"
                                  /\ error' = error
                                  /\ delivered' = Append(delivered, t.trade)
                      ELSE /\ pc' = "suspended"
                           /\ error' = error
                           /\ delivered' = Append(delivered, step.item)
    /\ UNCHANGED <<mode, channel, kwargs, uri, response>>
    /\ WsOnly

\* the peer closes the connection in order: the loop over the socket ends
StreamEnds ==
    /\ pc = "streaming"
    /\ ScopeExit(Append(ops, <<"recv">>), NoError)
    /\ UNCHANGED <<mode, channel, kwargs, uri, response, frames, yielded,
                   delivered>>
    /\ WsOnly

\* the connection breaks: the loop over the socket raises
StreamFails ==
    /\ pc = "streaming"
    /\ ScopeExit(Append(ops, <<"recv">>), Raise("ConnectionClosed", <<>>))
    /\ UNCHANGED <<mode, channel, kwargs, uri, response, frames, yielded,
                   delivered>>
    /\ WsOnly

\* the caller's loop asks for the next item
NextItem ==
    /\ pc = "suspended"
    /\ pc' = "streaming"
    /\ UNCHANGED <<mode, channel, kwargs, uri, socket, scope, response,
                   frames, yielded, delivered, error, ops>>
    /\ WsOnly

\* the caller breaks out of its loop: the generator it iterated stays
\* suspended at its yield (for the typed client that is the wrapper, which
\* holds the generator of the base class)
Break ==
    /\ pc = "suspended"
    /\ pc' = IF mode = "typed" THEN "wrapper_abandoned" ELSE "abandoned"
    /\ ops' = Append(ops, <<"break">>)
    /\ UNCHANGED <<mode, channel, kwargs, uri, socket, scope, response,
                   frames, yielded, delivered, error>>
    /\ WsOnly

\* the event loop finalises the abandoned wrapper (aclose): GeneratorExit is
\* raised at its yield, the wrapper ends and drops the generator it iterated
FinalizeWrapper ==
    /\ pc = "wrapper_abandoned"
    /\ pc' = "abandoned"
    /\ UNCHANGED <<mode, channel, kwargs, uri, socket, scope, response,
                   frames, yielded, delivered, error, ops>>
    /\ WsOnly

GeneratorExit == Raise("GeneratorExit", <<>>)

\* the event loop finalises the abandoned generator (aclose): GeneratorExit
\* is raised at the yield and leaves the async with
Finalize ==
    /\ pc = "abandoned"
    /\ ops' = AfterExit(Append(ops, <<"aexit", GeneratorExit>>), TRUE)
    /\ socket' = IF aexit_closes(TRUE) > 0 THEN "closed" ELSE socket
    /\ scope' = "exited"
    /\ pc' = "closed"
    /\ UNCHANGED <<mode, channel, kwargs, uri, response, frames, yielded,
                   delivered, error>>
    /\ WsOnly

WsNext ==
    \/ Subscribe
    \/ Trades
    \/ TypedTrades
    \/ ConnectOk
    \/ ConnectFails
    \/ SendOk
    \/ SendFails
    \/ RecvHandshake
    \/ RecvHandshakeFails
    \/ CallerEnter
    \/ CallerExit
    \/ RecvFrame
    \/ StreamEnds
    \/ StreamFails
    \/ NextItem
    \/ Break
    \/ FinalizeWrapper
    \/ Finalize

(***************************************************************************)
(* client/api.py: the request signer.                                      *)
(***************************************************************************)
LowerChars == <<"a","b","c","d","e","f","g","h","i","j","k","l","m",
                "n","o","p","q","r","s","t","u","v","w","x","y","z">>
UpperChars == <<"A","B","C","D","E","F","G","H","I","J","K","L","M",
                "N","O","P","Q","R","S","T","U","V","W","X","Y","Z">>

UpperChar(c) ==
    IF \E i \in 1..26 : LowerChars[i] = c
    THEN UpperChars[CHOOSE i \in 1..26 : LowerChars[i] = c]
    ELSE c

LowerChar(c) ==
    IF \E i \in 1..26 : UpperChars[i] = c
    THEN LowerChars[CHOOSE i \in 1..26 : UpperChars[i] = c]
    ELSE c

\* str.upper and str.lower
Upper(s) == [i \in 1..Len(s) |-> UpperChar(s[i])]
Lower(s) == [i \in 1..Len(s) |-> LowerChar(s[i])]

\* base64(HMAC-SHA256(key, msg)), taken as injective on (key, msg): the pair
hmac_sha256_base64(key, msg) == <<key, msg>>

get_signature_omits_body(secretkey, time_stamp, method, request_path, body) ==
    hmac_sha256_base64(secretkey, time_stamp \o Upper(method) \o request_path)

\* OkexApi.get_signature
get_signature(secretkey, time_stamp, method, request_path, body) ==
    LET prehash == time_stamp \o Upper(method) \o request_path \o body IN
    hmac_sha256_base64(secretkey, prehash)

\* what the two get_signature calls of the signer's specification are given
SignSecrets == { <<"k","1">>, <<"k","2">> }
SignTimestamps == { <<"T","1","Z">>, <<"T","1","Z","G">> }
SignMethods == { <<"G","E","T">>, <<"g","e","t">>, <<"P","O","S","T">> }
SignPaths == { <<"/","a">>, <<"/","a","?","b","=","1">> }
SignBodies == { <<>>, <<"{","\"","b","\"",":","\"","1","\"","}">> }

SignCalls ==
    [secretkey : SignSecrets, time_stamp : SignTimestamps, method : SignMethods,
     request_path : SignPaths, body : SignBodies]

Unsigned == <<>>

SignIdle ==
    /\ signPc = "idle"
    /\ callA = Unsigned
    /\ callB = Unsigned
    /\ sigA = Unsigned
    /\ sigB = Unsigned

SignOf(c) ==
    get_signature(c.secretkey, c.time_stamp, c.method, c.request_path, c.body)

\* a first call of get_signature
SignFirst ==
    /\ signPc = "idle"
    /\ \E c \in SignCalls :
         /\ callA' = c
         /\ sigA' = SignOf(c)
    /\ signPc' = "one"
    /\ UNCHANGED <<callB, sigB, wsvars, restvars>>

\* a second call of get_signature
SignSecond ==
    /\ signPc = "one"
    /\ \E c \in SignCalls :
         /\ callB' = c
         /\ sigB' = SignOf(c)
    /\ signPc' = "both"
    /\ UNCHANGED <<callA, sigA, wsvars, restvars>>

SignNext ==
    \/ SignFirst
    \/ SignSecond

(***************************************************************************)
(* client/query_params.py.  A Python value is None, a str, an int, a float *)
(* or a list of str: [t |-> "none"], [t |-> "str", v |-> s],               *)
(* [t |-> "int", v |-> n], [t |-> "float", v |-> s] (v its repr) or        *)
(* [t |-> "list", v |-> <<s, ...>>].                                       *)
(***************************************************************************)
None == [t |-> "none"]
StrV(s) == [t |-> "str", v |-> s]
IntV(n) == [t |-> "int", v |-> n]
FloatV(s) == [t |-> "float", v |-> s]
ListV(xs) == [t |-> "list", v |-> xs]
\* a dict, in insertion order: <<<<key, value>>, ...>>
DictV(kvs) == [t |-> "dict", v |-> kvs]

\* str(v), as an f-string formats v
PyStr(val) ==
    CASE val.t = "none" -> <<"N","o","n","e">>
      [] val.t = "str" -> val.v
      [] val.t = "int" -> IntToStr(val.v)
      [] val.t = "float" -> val.v

CANDLE_SIZES == {
    <<"1","m">>, <<"3","m">>, <<"5","m">>, <<"1","5","m">>, <<"3","0","m">>, <<"1","H">>, <<"2","H">>, <<"4","H">>, <<"6","H">>, <<"1","2","H">>, <<"1","D">>, <<"1","W">>,
    <<"1","M">>, <<"3","M">>, <<"6","M">>, <<"1","Y">> }

\* a validator's result: the value to store, or the raise
Ok(val) == [ok |-> TRUE, v |-> val]
Fails(kind) == [ok |-> FALSE, error |-> Raise(kind, <<>>)]

\* int(s) takes decimal digits with an optional sign
IsIntLiteral(s) ==
    IsNumeric(s) \/ (Len(s) > 1 /\ s[1] \in {"-", "+"} /\ IsNumeric(Tail(s)))

IntOfStr(s) ==
    IF s[1] = "-" THEN 0 - DecimalValue(Tail(s))
    ELSE IF s[1] = "+" THEN DecimalValue(Tail(s))
    ELSE DecimalValue(s)

\* QueryParams.assert_timestamp: utcfromtimestamp(ts / 1000) is at or after
\* 1970-01-01 exactly when ts >= 0
assert_timestamp(ts) ==
    CASE ts.t = "str" ->
            IF ~IsIntLiteral(ts.v) THEN Fails("ValueError")
            ELSE IF IntOfStr(ts.v) >= 0 THEN Ok(IntV(IntOfStr(ts.v)))
            ELSE Fails("ValueError")
      [] ts.t = "int" -> IF ts.v >= 0 THEN Ok(ts) ELSE Fails("ValueError")
      [] ts.t = "float" -> IF ts.v[1] # "-" THEN Ok(ts) ELSE Fails("ValueError")
      [] ts.t \in {"none", "list"} -> Fails("TypeError")

\* QueryParams.bar
bar(candle_size) ==
    IF candle_size.t = "str" /\ candle_size.v \in CANDLE_SIZES
    THEN Ok(candle_size)
    ELSE Fails("AssertionError")

\* QueryParams.ccy: ",".join over a list of str, or over the characters of a str
ccy(currencies) ==
    CASE currencies.t = "list" -> Ok(StrV(JoinWith(<<",">>, currencies.v)))
      [] currencies.t = "str" ->
            Ok(StrV(JoinWith(<<",">>, [i \in 1..Len(currencies.v) |->
                                     <<currencies.v[i]>>])))
      [] currencies.t \in {"none", "int", "float"} -> Fails("TypeError")

\* QueryParams.instType
instType(instrument_type) == Ok(instrument_type)

\* QueryParams.instId
instId(instrument_id) ==
    IF instrument_id = None THEN Fails("TypeError") ELSE Ok(instrument_id)

\* QueryParams.limit
limit_accepts_zero(lim) ==
    IF lim.t # "int" THEN Fails("AssertionError")
    ELSE IF ~(lim.v >= 0) THEN Fails("AssertionError")
    ELSE Ok(StrV(IntToStr(lim.v)))

limit(lim) ==
    IF lim.t # "int" THEN Fails("AssertionError")
    ELSE IF ~(lim.v > 0) THEN Fails("AssertionError")
    ELSE Ok(StrV(IntToStr(lim.v)))

\* QueryParams.sz
sz(size) ==
    IF size.t # "int" THEN Fails("AssertionError")
    ELSE IF ~(size.v > 0) THEN Fails("AssertionError")
    ELSE Ok(size)

\* the names with a validator method
Validators == { <<"a","f","t","e","r">>, <<"b","a","r">>, <<"b","e","f","o","r","e">>, <<"c","c","y">>, <<"i","n","s","t","T","y","p","e">>, <<"i","n","s","t","I","d">>, <<"l","i","m","i","t">>, <<"s","z">> }

\* the other methods of QueryParams, and those it inherits from dict
OwnMethods == { <<"a","d","d","_","p","a","r","a","m">>, <<"a","s","s","e","r","t","_","t","i","m","e","s","t","a","m","p">> }
DictMethods == { <<"c","l","e","a","r">>, <<"c","o","p","y">>, <<"f","r","o","m","k","e","y","s">>, <<"g","e","t">>, <<"i","t","e","m","s">>, <<"k","e","y","s">>, <<"p","o","p">>,
                 <<"p","o","p","i","t","e","m">>, <<"s","e","t","d","e","f","a","u","l","t">>, <<"u","p","d","a","t","e">>, <<"v","a","l","u","e","s">> }

\* hasattr(self, key) on a QueryParams
hasattr(key) == key \in Validators \cup OwnMethods \cup DictMethods

\* the value stored under a key of the dict built so far, or None: dict.get
DictGet(self, key) ==
    IF \E i \in 1..Len(self) : self[i][1] = key
    THEN self[CHOOSE i \in 1..Len(self) : self[i][1] = key][2]
    ELSE None

\* getattr(self, key)(value) for a key that hasattr accepts.  pop, setdefault,
\* update and fromkeys are given no value here: no call of the model names them.
getattr_call(self, key, value) ==
    CASE key = <<"a","f","t","e","r">> -> assert_timestamp(value)
      [] key = <<"b","a","r">> -> bar(value)
      [] key = <<"b","e","f","o","r","e">> -> assert_timestamp(value)
      [] key = <<"c","c","y">> -> ccy(value)
      [] key = <<"i","n","s","t","T","y","p","e">> -> instType(value)
      [] key = <<"i","n","s","t","I","d">> -> instId(value)
      [] key = <<"l","i","m","i","t">> -> limit(value)
      [] key = <<"s","z">> -> sz(value)
      [] key = <<"a","s","s","e","r","t","_","t","i","m","e","s","t","a","m","p">> -> assert_timestamp(value)
      [] key = <<"a","d","d","_","p","a","r","a","m">> -> Fails("TypeError")
      [] key \in { <<"c","l","e","a","r">>, <<"c","o","p","y">>, <<"i","t","e","m","s">>, <<"k","e","y","s">>, <<"p","o","p","i","t","e","m">>, <<"v","a","l","u","e","s">> } ->
            Fails("TypeError")
      [] key = <<"g","e","t">> ->
            IF value.t = "list" THEN Fails("TypeError")
            ELSE IF value.t = "str" THEN Ok(DictGet(self, value.v))
            ELSE Ok(None)

\* self[key] = val on the ordered dict
DictSet(self, key, val) ==
    IF \E i \in 1..Len(self) : self[i][1] = key
    THEN [i \in 1..Len(self) |->
             IF self[i][1] = key THEN <<key, val>> ELSE self[i]]
    ELSE Append(self, <<key, val>>)

\* QueryParams.add_param: the dict after it, or the raise
add_param(self, key, value) ==
    IF value # None
    THEN IF ~hasattr(key)
         THEN [ok |-> FALSE, error |-> Raise("KeyError",
                                            <<"Q","u","e","r","y","P","a","r","a","m","s"," ","d","o","e","s"," ","n","o","t"," ","s","u","p","p","o","r","t"," ">> \o key)]
         ELSE LET r == getattr_call(self, key, value) IN
              IF r.ok THEN [ok |-> TRUE, v |-> DictSet(self, key, r.v)] ELSE r
    ELSE [ok |-> TRUE, v |-> self]

RECURSIVE add_params(_, _)
add_params(self, kw) ==
    IF kw = <<>> THEN [ok |-> TRUE, v |-> self]
    ELSE LET r == add_param(self, kw[1][1], kw[1][2]) IN
         IF r.ok THEN add_params(r.v, Tail(kw)) ELSE r

\* QueryParams(**kw): the dict built, or the raise of the first add_param to fail
QueryParams(kw) == add_params(<<>>, kw)

(***************************************************************************)
(* client/api.py: the dispatcher.                                          *)
(***************************************************************************)
rest_protocol == <<"h","t","t","p","s">>
rest_base_url == <<"w","w","w",".","o","k","e","x",".","c","o","m">>

\* OkexApi.compile_url
compile_url(request_path) == rest_protocol \o <<":","/","/">> \o rest_base_url \o request_path

RECURSIVE compile_query_string_from_leading_amp(_, _)
compile_query_string_from_leading_amp(query_params, i) ==
    IF i > Len(query_params) THEN <<>>
    ELSE <<"&">> \o query_params[i][1] \o <<"=">> \o PyStr(query_params[i][2])
            \o compile_query_string_from_leading_amp(query_params, i + 1)

RECURSIVE compile_query_string_from(_, _)
compile_query_string_from(query_params, i) ==
    IF i > Len(query_params) THEN <<>>
    ELSE (IF i > 1 THEN <<"&">> ELSE <<>>)
            \o query_params[i][1] \o <<"=">> \o PyStr(query_params[i][2])
            \o compile_query_string_from(query_params, i + 1)

\* OkexApi.compile_query_string
compile_query_string(query_params) ==
    <<"?">> \o compile_query_string_from(query_params, 1)

\* OkexApi.get_timestamp: the clock's reading, formatted
Timestamps == { <<"2","0","2","1","-","0","5","-","0","1","T","0","0",":","0","0",":","0","0",".","0","0","0","Z">>, <<"2","0","2","1","-","0","5","-","0","1","T","0","0",":","0","0",":","0","0",".","0","0","1","Z">> }

get_headers_never_signs(self, time_stamp, method, request_path, body) == <<>>

\* OkexApi.get_headers
get_headers(self, time_stamp, method, request_path, body) ==
    IF self.secretkey = None THEN <<>>
    ELSE << <<<<"O","K","-","A","C","C","E","S","S","-","K","E","Y">>, self.api_key.v>>,
            <<<<"O","K","-","A","C","C","E","S","S","-","S","I","G","N">>,
              get_signature(self.secretkey.v, time_stamp, method, request_path, body)>>,
            <<<<"O","K","-","A","C","C","E","S","S","-","T","I","M","E","S","T","A","M","P">>, time_stamp>>,
            <<<<"O","K","-","A","C","C","E","S","S","-","P","A","S","S","P","H","R","A","S","E">>, self.passphrase.v>> >>

\* the get_signature calls get_headers makes
signer_calls(self, time_stamp, method, request_path, body) ==
    IF self.secretkey = None THEN <<>>
    ELSE << [secretkey |-> self.secretkey.v, time_stamp |-> time_stamp,
             method |-> method, request_path |-> request_path, body |-> body] >>

\* the body of OkexApi.make_request: json.dumps(params, separators=(",", ":"))
\* of the keyword arguments, or ""
request_body(params) ==
    IF params # <<>>
    THEN json_dumps(JDict([i \in 1..Len(params) |->
                             <<params[i][1], JStr(params[i][2])>>]), <<",">>, <<":">>)
    ELSE <<>>

full_request_path_always_appends(request_path, query_params) ==
    request_path \o compile_query_string(IF query_params = None THEN <<>>
                                         ELSE query_params.v)

\* the path of OkexApi.make_request after the query string is appended
full_request_path(request_path, query_params) ==
    IF query_params # None /\ query_params.v # <<>>
    THEN request_path \o compile_query_string(query_params.v)
    ELSE request_path

\* what OkexApi.make_request passes to requests.<method>: the url and the
\* headers; no data argument is given, so the call has an empty body
http_call(self, time_stamp, method, request_path, query_params, params) ==
    LET body == request_body(params)
        path == full_request_path(request_path, query_params) IN
    [method |-> Lower(method),
     url |-> compile_url(path),
     headers |-> get_headers(self, time_stamp, method, path, body),
     body |-> <<>>]

(***************************************************************************)
(* The REST client: construction and calls.                                *)
(***************************************************************************)
RestIdle ==
    /\ restPc = "new"
    /\ client = <<>>
    /\ call = <<>>
    /\ qkwargs = <<>>
    /\ qp = None
    /\ restError = NoError
    /\ signerCalls = <<>>
    /\ httpCalls = <<>>

ApiKeys == { None, StrV(<<"k","e","y">>) }
Passphrases == { None, StrV(<<"p","w">>) }
SecretKeys == { None, StrV(<<"k","1">>) }

init_error_ignores_passphrase(api_key, passphrase, secretkey) ==
    IF api_key = None THEN Raise("ValueError", <<"O","k","e","x","C","l","i","e","n","t"," ","m","u","s","t"," ","h","a","v","e"," ","a","n"," ","a","p","i","_","k","e","y">>)
    ELSE NoError

\* OkexApi.__init__: the configuration error it raises, or NoError
init_error(api_key, passphrase, secretkey) ==
    IF api_key = None THEN Raise("ValueError", <<"O","k","e","x","C","l","i","e","n","t"," ","m","u","s","t"," ","h","a","v","e"," ","a","n"," ","a","p","i","_","k","e","y">>)
    ELSE IF passphrase = None
    THEN Raise("ValueError", <<"O","k","e","x","C","l","i","e","n","t"," ","m","u","s","t"," ","h","a","v","e"," ","a"," ","p","a","s","s","p","h","r","a","s","e">>)
    ELSE NoError

\* OkexWebsocketsApi.__init__: the configuration error it raises, or NoError
ws_init_error(api_key, passphrase, secretkey) ==
    IF api_key = None
    THEN Raise("ValueError", <<"O","k","e","x","W","e","b","s","o","c","k","e","t","s","A","p","i"," ","m","u","s","t"," ","h","a","v","e"," ","a","n"," ","a","p","i","_","k","e","y">>)
    ELSE IF passphrase = None
    THEN Raise("ValueError", <<"O","k","e","x","W","e","b","s","o","c","k","e","t","s","A","p","i"," ","m","u","s","t"," ","h","a","v","e"," ","a"," ","p","a","s","s","p","h","r","a","s","e">>)
    ELSE NoError

\* cls(api_key, passphrase, secretkey) raising e or, with NoError, giving a
\* client in the state ready
ConstructAs(cls, k, p, s, e, ready) ==
    /\ restPc = "new"
    /\ call' = [name |-> cls, api_key |-> k, passphrase |-> p, secretkey |-> s]
    /\ IF e # NoError
       THEN /\ restPc' = "config_error"
            /\ restError' = e
            /\ client' = client
       ELSE /\ restPc' = ready
            /\ restError' = restError
            /\ client' = [api_key |-> k, passphrase |-> p, secretkey |-> s]
    /\ UNCHANGED <<qkwargs, qp, signerCalls, httpCalls, wsvars, signvars>>

\* OkexApi(api_key, passphrase, secretkey)
Construct ==
    \E k \in ApiKeys, p \in Passphrases, s \in SecretKeys :
        ConstructAs("OkexApi", k, p, s, init_error(k, p, s), "ready")

\* OkexWebsocketsApi(api_key, passphrase, secretkey)
ConstructWs ==
    \E k \in ApiKeys, p \in Passphrases, s \in SecretKeys :
        ConstructAs("OkexWebsocketsApi", k, p, s, ws_init_error(k, p, s),
                    "ws_ready")

\* OkexApi.make_request on the client, at clock reading ts
MakeRequestStep(c, ts, method, request_path, query_params, params) ==
    /\ call' = c @@ [request_path |-> request_path]
    /\ restPc' = "done"
    /\ restError' = restError
    /\ httpCalls' = Append(httpCalls,
            http_call(client, ts, method, request_path, query_params, params))
    /\ signerCalls' = signerCalls \o
            signer_calls(client, ts, method,
                         full_request_path(request_path, query_params),
                         request_body(params))

\* q = QueryParams(**kw); return self.get(request_path, query_params=q)
GetWithParams(c, request_path, kw) ==
    /\ restPc = "ready"
    /\ qkwargs' = kw
    /\ LET q == QueryParams(kw) IN
         IF ~q.ok
         THEN /\ call' = c
              /\ restPc' = "failed"
              /\ restError' = q.error
              /\ qp' = qp
              /\ UNCHANGED <<signerCalls, httpCalls>>
         ELSE /\ qp' = DictV(q.v)
              /\ \E ts \in Timestamps :
                   MakeRequestStep(c, ts, <<"G","E","T">>, request_path, DictV(q.v), <<>>)
    /\ UNCHANGED <<client, wsvars, signvars>>

InstTypeArgs == { StrV(<<"S","P","O","T">>), StrV(<<"S","W","A","P">>) }
UnderlyingArgs == { None, StrV(<<"B","T","C","-","U","S","D">>) }
InstIdArgs == { None, StrV(<<"B","T","C","-","U","S","D","T">>) }
DepthArgs == { IntV(1), IntV(5), IntV(0), FloatV(<<"5",".","5">>) }
CursorArgs == { None, StrV(<<"1","2">>), IntV(0 - 1) }
BarArgs == { None, StrV(<<"1","m">>), StrV(<<"2","m">>) }
LimitArgs == { None, IntV(5), IntV(0), StrV(<<"5">>), FloatV(<<"5",".","5">>) }

\* OkexApi.get_tickers
GetTickers ==
    \E it \in InstTypeArgs, u \in UnderlyingArgs :
        GetWithParams([name |-> "get_tickers", instrument_id |-> None],
                      <<"/","a","p","i","/","v","5","/","m","a","r","k","e","t","/","t","i","c","k","e","r","s">>,
                      << <<<<"i","n","s","t","T","y","p","e">>, it>>, <<<<"u","l","y">>, u>> >>)

\* OkexApi.get_ticker
GetTicker ==
    \E id \in InstIdArgs :
        GetWithParams([name |-> "get_ticker", instrument_id |-> id],
                      <<"/","a","p","i","/","v","5","/","m","a","r","k","e","t","/","t","i","c","k","e","r">>,
                      << <<<<"i","n","s","t","I","d">>, id>> >>)

\* OkexApi.get_order_book
GetOrderBook ==
    \E id \in InstIdArgs, depth \in DepthArgs :
        GetWithParams([name |-> "get_order_book", instrument_id |-> id],
                      <<"/","a","p","i","/","v","5","/","m","a","r","k","e","t","/","b","o","o","k","s">>,
                      << <<<<"i","n","s","t","I","d">>, id>>, <<<<"s","z">>, depth>> >>)

\* OkexApi.get_candlesticks
GetCandlesticks ==
    \E id \in InstIdArgs, a \in CursorArgs, b \in CursorArgs,
       size \in BarArgs, lim \in LimitArgs :
        GetWithParams([name |-> "get_candlesticks", instrument_id |-> id],
                      <<"/","a","p","i","/","v","5","/","m","a","r","k","e","t","/","c","a","n","d","l","e","s">>,
                      << <<<<"i","n","s","t","I","d">>, id>>, <<<<"b","e","f","o","r","e">>, b>>, <<<<"a","f","t","e","r">>, a>>,
                         <<<<"b","a","r">>, size>>, <<<<"l","i","m","i","t">>, lim>> >>)

\* OkexApi.get_trades
GetTrades ==
    \E id \in InstIdArgs, lim \in LimitArgs :
        GetWithParams([name |-> "get_trades", instrument_id |-> id],
                      <<"/","a","p","i","/","v","5","/","m","a","r","k","e","t","/","t","r","a","d","e","s">>,
                      << <<<<"i","n","s","t","I","d">>, id>>, <<<<"l","i","m","i","t">>, lim>> >>)

\* names and values a caller may give QueryParams itself
KwNames == { <<"i","n","s","t","I","d">>, <<"l","i","m","i","t">>, <<"u","l","y">>, <<"g","e","t">>, <<"k","e","y","s">>, <<"a","s","s","e","r","t","_","t","i","m","e","s","t","a","m","p">> }
KwValues == { None, StrV(<<"x">>), IntV(5) }

\* QueryParams(**kw) built by the caller, of one or two arguments
NewQueryParams ==
    /\ restPc = "ready"
    /\ \E k1 \in KwNames, k2 \in KwNames, v1 \in KwValues, v2 \in KwValues,
          n \in 1..2 :
         LET kw == IF n = 1 \/ k1 = k2 THEN << <<k1, v1>> >>
                   ELSE << <<k1, v1>>, <<k2, v2>> >>
             q == QueryParams(kw) IN
         /\ qkwargs' = kw
         /\ call' = [name |-> "QueryParams", instrument_id |-> None]
         /\ IF ~q.ok
            THEN /\ restPc' = "failed"
                 /\ restError' = q.error
                 /\ qp' = qp
            ELSE /\ restPc' = "done"
                 /\ restError' = restError
                 /\ qp' = DictV(q.v)
    /\ UNCHANGED <<client, signerCalls, httpCalls, wsvars, signvars>>

RestMethods == { <<"P","O","S","T">>, <<"G","E","T">> }
RestPaths == { <<"/","a","p","i","/","v","5","/","t","r","a","d","e","/","o","r","d","e","r">> }
BodyFields == { <<>>, << <<<<"i","n","s","t","I","d">>, <<"B","T","C","-","U","S","D","T">>>> >>,
                << <<<<"i","n","s","t","I","d">>, <<"B","T","C","-","U","S","D","T">>>>, <<<<"s","z">>, <<"1">>>> >> }
QueryArgs == { None, DictV(<<>>), DictV(<< <<<<"i","n","s","t","I","d">>, StrV(<<"B","T","C","-","U","S","D","T">>)>> >>) }

\* OkexApi.make_request(method, request_path, query_params, **params)
MakeRequest ==
    /\ restPc = "ready"
    /\ \E m \in RestMethods, path \in RestPaths, q \in QueryArgs,
          params \in BodyFields, ts \in Timestamps :
         /\ MakeRequestStep([name |-> "make_request", instrument_id |-> None,
                             params |-> params],
                            ts, m, path, q, params)
         /\ qp' = q
    /\ UNCHANGED <<qkwargs, client, wsvars, signvars>>

RestNext ==
    \/ Construct
    \/ ConstructWs
    \/ GetTickers
    \/ GetTicker
    \/ GetOrderBook
    \/ GetCandlesticks
    \/ GetTrades
    \/ NewQueryParams
    \/ MakeRequest

(***************************************************************************)
(* Specifications: the subscription, the signer, the REST client.          *)
(***************************************************************************)
Init == WsInit /\ SignIdle /\ RestIdle

Next == WsNext

Spec == Init /\ [][Next]_vars

\* the asyncio event loop runs the finaliser of every async generator that
\* was dropped while suspended, so a pending finalisation is not postponed
\* for ever
SpecLive == Spec /\ WF_vars(FinalizeWrapper) /\ WF_vars(Finalize)

SpecSign == Init /\ [][SignNext]_vars

SpecRest == Init /\ [][RestNext]_vars

(***************************************************************************)
(* The WebSocket subscription: properties.                                 *)
(***************************************************************************)
Terminal == pc \in {"failed", "closed"}

\* C1: in every terminal state (failed or closed) of a subscription whose
\* socket was opened, the socket has been closed.
C1_OpenedSocketIsClosedAtExit ==
    (Terminal /\ socket # "none") => (socket = "closed" /\ closeCalls >= 1)

\* C2: the SocketContext has been exited exactly when close has been called
\* on the socket, and then it has been called exactly once, whether the body
\* ended or raised.
C2_ScopeExitClosesExactlyOnce ==
    /\ scope = "exited" => closeCalls = 1
    /\ scope # "exited" => closeCalls = 0

C2_Witness ==
    /\ mode = "trades"
    /\ scope = "exited"
    /\ error.kind = "ValueError"
    /\ closeCalls = 1

IsErrorEvent(r) ==
    "event" \in DOMAIN r /\ r.event = "error" /\ "msg" \in DOMAIN r

\* C3: a handshake response with event "error" and message m makes subscribe
\* raise an error whose text contains m; no SocketContext is returned, nothing
\* is yielded or delivered, and there is one connect, one subscribe frame and
\* one receive: no retry.
C3_HandshakeErrorFailsWithMessage ==
    \A i \in 1..Len(response) :
        IsErrorEvent(response[i]) =>
            /\ pc = "failed"
            /\ error.kind = "RuntimeError"
            /\ Contains(error.text, response[i].msg)
            /\ scope = "none"
            /\ frames = <<>> /\ yielded = <<>> /\ delivered = <<>>
            /\ connects = 1
            /\ Len(sent) = 1
            /\ Len(response) = 1

C3_Witness ==
    /\ mode = "trades"
    /\ pc = "failed"
    /\ response = <<[event |-> "error", msg |-> <<"x">>]>>
    /\ error.kind = "RuntimeError"

\* frame i ended the stream with an error of this kind and gave no item
FrameRaised(i, kind) ==
    /\ i = Len(frames)
    /\ pc = "closed"
    /\ error.kind = kind
    /\ Len(yielded) = i - 1
    /\ Len(delivered) <= i - 1

C5_InvalidChannelNeverConnects ==
    (mode # "none" /\ channel \notin PUBLIC_CHANNELS \cup PRIVATE_CHANNELS) =>
        /\ pc = "failed"
        /\ error.kind = "ValueError"
        /\ Contains(error.text, channel)
        /\ ops = <<>>
        /\ uri = <<>>
        /\ socket = "none"
        /\ response = <<>> /\ frames = <<>>

C5_Witness ==
    /\ mode = "subscribe"
    /\ channel = <<"n","o","t","-","a","-","c","h","a","n","n","e","l">>
    /\ pc = "failed"

\* C6: the items yielded are, in order, the single elements of the frames
\* received (a frame of another cardinality ends the stream and is the last
\* one); the plain stream delivers them as they are and the typed stream
\* delivers the Trade of each, in the same order, one per frame.
C6_DeliveredInReceiveOrder ==
    LET n == Len(yielded) IN
    /\ n <= Len(frames)
    /\ \A i \in 1..n :
         Len(frames[i].data) = 1 /\ yielded[i] = frames[i].data[1]
    /\ \/ n = Len(frames)
       \/ n = Len(frames) - 1 /\ Len(frames[Len(frames)].data) # 1
    /\ mode # "typed" => delivered = yielded
    /\ mode = "typed" =>
         /\ \A i \in 1..Len(delivered) :
              /\ i <= n
              /\ delivered[i].trade_id = frames[i].data[1].tradeId
              /\ delivered[i] = Trade_from_api_data(yielded[i]).trade
         /\ \/ Len(delivered) = n
            \/ /\ Len(delivered) = n - 1
               /\ Trade_from_api_data(yielded[n]).kind = "raise"
               /\ pc \in {"abandoned", "closed"}

C6_Witness ==
    /\ mode = "typed"
    /\ Len(delivered) = 2
    /\ frames[1] # frames[2]
    /\ delivered[1].trade_id = <<"2">>
    /\ delivered[2].trade_id = <<"1">>
\* the errors raised by the body of the subscription scope, as __aexit__ saw
\* them (GeneratorExit is the finaliser's own signal, not an error of the body)
BodyErrorAt(i) ==
    /\ ops[i][1] = "aexit"
    /\ ops[i][2] # NoError
    /\ ops[i][2] # GeneratorExit

\* C11: when the body of the subscription scope raises an error e, the socket
\* is closed (the close is the last transport call) and the caller of the
\* stream ends with that same error e, not with another one and not with none
C11_BodyErrorClosesThenPropagates ==
    \A i \in 1..Len(ops) :
        BodyErrorAt(i) =>
            /\ Len(ops) = i + 1
            /\ ops[i + 1] = <<"close">>
            /\ socket = "closed"
            /\ error = ops[i][2]

C11_Witness ==
    /\ \E i \in 1..Len(ops) : BodyErrorAt(i) /\ ops[i][2].kind = "ValueError"
    /\ error.kind = "ValueError"
    /\ socket = "closed"

\* the caller has broken out of its loop over the stream
Broke == Count("break") > 0

\* C12: once the caller has broken out of the trades stream (the plain one or
\* the typed wrapper), every further step is a finalisation by the event
\* loop, no item is yielded or delivered any more, and the socket is
\* eventually closed
C12_BreakClosesAndDeliversNoMore ==
    /\ Broke ~> (socket = "closed")
    /\ [][Broke => /\ FinalizeWrapper \/ Finalize
                   /\ delivered' = delivered
                   /\ yielded' = yielded]_vars

C12_Witness ==
    /\ Broke
    /\ mode = "typed"
    /\ socket = "closed"
    /\ Len(delivered) = 1

\* the credentials the subscribing client was constructed with
WsCredentials ==
    [api_key |-> <<"a","k">>, passphrase |-> <<"p","p">>, secretkey |-> <<"s","k">>]

\* a transport call that carries text: the uri of connect, the frame of send
CarriesText(o) == o[1] \in {"connect", "send"}

\* C13: a subscription to a private channel that is returned or streamed has
\* carried the configured API key to the server, in the uri it connected to
\* or in a frame it sent, before that
C13_PrivateChannelIsAuthenticated ==
    (channel \in PRIVATE_CHANNELS /\ scope # "none") =>
        \E i \in 1..Len(ops) :
            /\ CarriesText(ops[i])
            /\ Contains(ops[i][2], WsCredentials.api_key)

PublicUri == <<"w","s","s",":","/","/","w","s",".","o","k","e","x",".","c","o","m",":","8","4","4","3","/","w","s","/","v","5","/","p","u","b","l","i","c">>

PrivateUri == <<"w","s","s",":","/","/","w","s",".","o","k","e","x",".","c","o","m",":","8","4","4","3","/","w","s","/","v","5","/","p","r","i","v","a","t","e">>

\* C18: the public and the private table are disjoint, every channel name is
\* classified by its membership in them (public, private, or invalid when in
\* neither), and every connect goes to the endpoint of the channel's class:
\* .../v5/public for a public channel, .../v5/private for a private one
C18_ConnectsToEndpointOfItsClass ==
    /\ PUBLIC_CHANNELS \cap PRIVATE_CHANNELS = {}
    /\ \A c \in CallerChannels :
          /\ c \in PUBLIC_CHANNELS <=> <<"p","u","b","l","i","c">> = get_channel_visibility(c)
          /\ c \in PRIVATE_CHANNELS <=> <<"p","r","i","v","a","t","e">> = get_channel_visibility(c)
          /\ c \notin PUBLIC_CHANNELS \cup PRIVATE_CHANNELS
                <=> get_channel_visibility(c) = InvalidChannel
    /\ \A i \in 1..Len(ops) :
          ops[i][1] = "connect" =>
              \/ channel \in PUBLIC_CHANNELS /\ ops[i][2] = PublicUri
              \/ channel \in PRIVATE_CHANNELS /\ ops[i][2] = PrivateUri

C18_Witness ==
    /\ channel = <<"o","r","d","e","r","s">>
    /\ connects = 1
    /\ uri = PrivateUri
    /\ socket = "open"

\* the handshake response is the acknowledgement of the subscription
IsSubscribeAck(r) == "event" \in DOMAIN r /\ r.event = "subscribe"

\* C20: after a handshake response that is not the subscribe acknowledgement
\* the subscription is failed and no scope was returned or entered
C20_OnlyAcknowledgedSubscriptionsStream ==
    \A i \in 1..Len(response) :
        ~IsSubscribeAck(response[i]) => pc = "failed" /\ scope = "none"

\* the text of a subscribe frame for the channel and the parameters given:
\* {"op": "subscribe", "args": [{"channel": ..., name: value, ...}]}
IsSubscribeFrameOf(frame, ch, kw) ==
    /\ frame = <<"{","\"","o","p","\"",":"," ","\"","s","u","b","s","c","r","i","b","e","\"",","," ","\"","a","r","g","s","\"",":"," ","[","{","\"","c","h","a","n","n","e","l","\"",":"," ","\"">> \o ch \o <<"\"">>
                 \o JoinWith(<<>>, [i \in 1..Len(kw) |->
                        <<","," ","\"">> \o kw[i][1] \o <<"\"",":"," ","\"">> \o kw[i][2] \o <<"\"">>])
                 \o <<"}","]","}">>
    /\ (ch = <<"t","r","a","d","e","s">> /\ kw = << <<<<"i","n","s","t","I","d">>, <<"B","T","C","-","U","S","D","T">>>> >>) =>
          frame = <<"{","\"","o","p","\"",":"," ","\"","s","u","b","s","c","r","i","b","e","\"",","," ","\"","a","r","g","s","\"",":"," ","[","{","\"","c","h","a","n","n","e","l","\"",":"," ","\"","t","r","a","d","e","s","\"",","," ","\"","i","n","s","t","I","d","\"",":"," ","\"","B","T","C","-","U","S","D","T","\"","}","]","}">>

\* C21: the transport calls of a subscription come in the order connect, one
\* send of the subscribe frame of the channel and its parameters, one receive
\* of the handshake response, then data receives, each yield directly after
\* the data receive it came from, and at most one close, which is the last
\* entry: nothing is yielded before the handshake response was received and
\* nothing is sent, received or yielded after the close
C21_TransportOrder ==
    /\ Len(response) <= 1
    /\ Len(response) = 1 => Len(ops) >= 3
    /\ \A i \in 1..Len(ops) :
          /\ i = 1 <=> ops[i][1] = "connect"
          /\ i = 2 <=> ops[i][1] = "send"
          /\ i = 2 => IsSubscribeFrameOf(ops[i][2], channel, kwargs)
          /\ i = 3 => ops[i] = <<"recv">>
          /\ ops[i][1] = "yield" =>
                i > 4 /\ ops[i - 1] = <<"recv">> /\ Len(response) = 1
          /\ ops[i][1] = "close" => i = Len(ops) /\ i > 3
          /\ ops[i][1] \in {"connect", "send", "recv", "yield", "break",
                            "aexit", "close"}
    /\ socket = "closed" => (ops # <<>> /\ ops[Len(ops)] = <<"close">>)

C21_Witness ==
    /\ mode = "trades"
    /\ Count("yield") = 2
    /\ Count("recv") = 4
    /\ socket = "closed"
    /\ ops[Len(ops)] = <<"close">>

(***************************************************************************)
(* The signer: properties.                                                 *)
(***************************************************************************)
SignFields == {"secretkey", "time_stamp", "method", "request_path", "body"}

\* the inputs in which two calls differ
DiffersIn(a, b) == {f \in SignFields : a[f] # b[f]}

\* a call with its method in the case the prehash uses
UpperMethod(c) == [c EXCEPT !.method = Upper(c.method)]

\* C8 as stated: two calls that differ in exactly one of the five inputs
\* have different signatures, and two calls with equal inputs have equal
\* signatures.
C8_OneInputChangesSignature ==
    signPc = "both" =>
        /\ Cardinality(DiffersIn(callA, callB)) = 1 => sigA # sigB
        /\ callA = callB => sigA = sigB

\* C8 amended: the same, with the method compared as the signer uses it,
\* upper-cased: two methods that differ only in letter case are one input
\* value, and the signatures of such calls are equal.
C8_OneInputChangesSignatureUpToCase ==
    signPc = "both" =>
        /\ Cardinality(DiffersIn(UpperMethod(callA), UpperMethod(callB))) = 1
              => sigA # sigB
        /\ UpperMethod(callA) = UpperMethod(callB) => sigA = sigB

C8_Witness ==
    /\ signPc = "both"
    /\ DiffersIn(callA, callB) = {"body"}
    /\ callA.body = <<>>
    /\ sigA # sigB

(***************************************************************************)
(* The REST client: properties.                                            *)
(***************************************************************************)
\* the body fields of the make_request call made
BodyFieldsOf(c) == IF "params" \in DOMAIN c THEN c.params ELSE <<>>

\* C7: in every signed request the body string given to the signer is the
\* body of the HTTP call issued: the minified JSON of a non-empty body field
\* set, and the empty string (not "{}") for an empty one.
C7_SignedBodyIsSentBody ==
    \A i \in 1..Len(signerCalls) :
        /\ Len(httpCalls) = Len(signerCalls)
        /\ signerCalls[i].body = httpCalls[i].body
        /\ BodyFieldsOf(call) # <<>> =>
              /\ signerCalls[i].body = request_body(BodyFieldsOf(call))
              /\ ~Contains(signerCalls[i].body, <<" ">>)
        /\ BodyFieldsOf(call) = <<>> => signerCalls[i].body = <<>>

\* the arguments of QueryParams with a value and an unrecognised name
UnknownGiven ==
    {i \in 1..Len(qkwargs) :
        qkwargs[i][2] # None /\ qkwargs[i][1] \notin Validators}

\* C9: when QueryParams is given a value under a name that has no validator,
\* construction raises, no parameter set exists and no HTTP request is issued.
C9_UnknownNameIsHardError ==
    (restPc \in {"done", "failed"} /\ UnknownGiven # {}) =>
        /\ restPc = "failed"
        /\ restError # NoError
        /\ qp = None
        /\ httpCalls = <<>>

RequiresInstId ==
    {"get_ticker", "get_order_book", "get_candlesticks", "get_trades"}

\* C10: a call of an endpoint that requires an instrument identifier, made
\* without one, raises and issues no HTTP request.
C10_MissingInstIdIsRejected ==
    (restPc \in {"done", "failed"} /\ call.name \in RequiresInstId
        /\ call.instrument_id = None) =>
        /\ restPc = "failed"
        /\ restError # NoError
        /\ httpCalls = <<>>


AuthHeaderNames ==
    <<<<"O","K","-","A","C","C","E","S","S","-","K","E","Y">>, <<"O","K","-","A","C","C","E","S","S","-","S","I","G","N">>, <<"O","K","-","A","C","C","E","S","S","-","T","I","M","E","S","T","A","M","P">>,
      <<"O","K","-","A","C","C","E","S","S","-","P","A","S","S","P","H","R","A","S","E">>>>

\* C14: a request of a client with no secret is issued with empty headers and
\* without a call of the signer; a request of a client with a secret carries
\* exactly the four auth headers, holding the API key, the signature of that
\* request, its timestamp and the passphrase; a call that completes has issued
\* its request, with or without a secret
C14_AuthHeadersIffSecret ==
    /\ \A i \in 1..Len(httpCalls) :
         LET h == httpCalls[i].headers IN
         IF client.secretkey = None
         THEN h = <<>> /\ signerCalls = <<>>
         ELSE /\ Len(signerCalls) = Len(httpCalls)
              /\ Len(h) = 4
              /\ \A j \in 1..4 : h[j][1] = AuthHeaderNames[j]
              /\ h[1][2] = client.api_key.v
              /\ h[2][2] = get_signature(client.secretkey.v,
                                         signerCalls[i].time_stamp,
                                         signerCalls[i].method,
                                         signerCalls[i].request_path,
                                         signerCalls[i].body)
              /\ h[3][2] = signerCalls[i].time_stamp
              /\ h[4][2] = client.passphrase.v
    /\ (restPc = "done" /\ call.name # "QueryParams") => Len(httpCalls) = 1

C14_Witness ==
    /\ Len(httpCalls) = 1
    /\ client.secretkey = None
    /\ httpCalls[1].headers = <<>>

\* no query parameter set was given to the request, or an empty one
NoQuery == qp = None \/ qp.v = <<>>

\* C15: the url called is scheme and host followed by the request path and,
\* for a non-empty query parameter set only, its query string; the signer is
\* given exactly that path and query string, without scheme and host; with no
\* or an empty parameter set the url has no "?"
C15_SignedPathIsCalledPath ==
    \A i \in 1..Len(httpCalls) :
        LET path == IF NoQuery THEN call.request_path
                    ELSE call.request_path \o compile_query_string(qp.v) IN
        /\ httpCalls[i].url = <<"h","t","t","p","s",":","/","/","w","w","w",".","o","k","e","x",".","c","o","m">> \o path
        /\ NoQuery => ~Contains(httpCalls[i].url, <<"?">>)
        /\ client.secretkey # None => Len(signerCalls) = Len(httpCalls)
        /\ \A j \in 1..Len(signerCalls) :
             /\ signerCalls[j].request_path = path
             /\ ~Contains(signerCalls[j].request_path, <<":","/","/">>)

C15_Witness ==
    /\ Len(httpCalls) = 1
    /\ Len(signerCalls) = 1
    /\ ~NoQuery
    /\ Contains(signerCalls[1].request_path, <<"?","i","n","s","t","I","d","=","B","T","C","-","U","S","D","T">>)

\* the arguments given to QueryParams with a value other than None
GivenArgs == SelectSeq(qkwargs, LAMBDA kv : kv[2] # None)

\* every argument given to QueryParams has a name with a validator
ValidNames == \A i \in 1..Len(qkwargs) : qkwargs[i][1] \in Validators

\* the part of the called url after scheme, host and request path
QueryStringOf(c) ==
    SubSeq(c.url, Len(compile_url(call.request_path)) + 1, Len(c.url))

IsPositiveInt(val) == val.t = "int" /\ val.v > 0

\* the endpoints whose only validated argument is limit or sz
OnlyCountValidated == {"get_trades", "get_order_book"}

Constructed == call.name \in {"OkexApi", "OkexWebsocketsApi"}

\* C19: constructing OkexApi or OkexWebsocketsApi fails, with a ValueError
\* and without a client, exactly when the API key or the passphrase is None,
\* whatever the secret; a client that exists has both, and no request is
\* issued without a client
C19_NoClientWithoutKeyOrPassphrase ==
    /\ (restPc # "new" /\ Constructed) =>
         IF call.api_key = None \/ call.passphrase = None
         THEN /\ restPc = "config_error"
              /\ restError.kind = "ValueError"
              /\ DOMAIN client = {}
         ELSE /\ restPc \in {"ready", "ws_ready"}
              /\ client = [api_key |-> call.api_key,
                           passphrase |-> call.passphrase,
                           secretkey |-> call.secretkey]
    /\ DOMAIN client # {} =>
         client.api_key # None /\ client.passphrase # None
    /\ DOMAIN client = {} => httpCalls = <<>> /\ signerCalls = <<>>

C19_Witness ==
    /\ restPc = "config_error"
    /\ call.name = "OkexWebsocketsApi"
    /\ call.api_key # None
    /\ call.passphrase = None
    /\ call.secretkey = None
====
